---------------------------- MODULE Spec2Model ----------------------------
(***************************************************************************)
(* A model of wikimapper's WikiMapper (src/wikimapper/mapper.py): a        *)
(* read-only query facade over a SQLite file holding one table             *)
(*     mapping(wikipedia_id, wikipedia_title, wikidata_id).                *)
(*                                                                         *)
(* Text is modelled as a sequence of code points, so that rsplit and the   *)
(* collations act on characters.  A value of Python or of a nullable       *)
(* column is a record of its type and its content: None (NULL), a str, a   *)
(* list.  A call is three steps, in the order of the code: the             *)
(* connect of the `with` line, the execute/fetchall inside the block       *)
(* together with the block's exit, and the code after the block.           *)
(***************************************************************************)
EXTENDS Naturals, Sequences, FiniteSets

VARIABLES
    path_to_db,   \* WikiMapper._path_to_db
    status,       \* what is at that path: "ok", "missing", "empty", "corrupt", "unreadable"
    rows,         \* the rows of table mapping, in rowid (retrieval) order
    pc,           \* per caller: "idle", "connected", "fetched", "done"
    req,          \* per caller: the call being made (operation and arguments)
    results,      \* per caller: the local `results` of the running call
    ret,          \* per caller: how the last call ended (return value or exception)
    leaked        \* open connections that no running call refers to

vars == <<path_to_db, status, rows, pc, req, results, ret, leaked>>

----------------------------------------------------------------------------
(* Bounds of the model *)

MaxRows == 2
MaxOpen == 2
NumCallers == 2

Callers == 1..NumCallers

----------------------------------------------------------------------------
(* Values *)

None == [type |-> "NoneType", value |-> <<>>]
Str(s) == [type |-> "str", value |-> <<s>>]
List(s) == [type |-> "list", value |-> s]

\* '/' , the separator of url_to_id
Slash == 47

\* "M", "m", U+00C9 (E acute), U+00E9 (e acute)
StoredTitles == {<<77>>, <<109>>, <<201>>}
QueryTitles == {<<77>>, <<109>>, <<201>>, <<233>>}
\* "M", "w/M", "M/", "w/m/É"
Urls == {<<77>>, <<119, 47, 77>>, <<77, 47>>, <<119, 47, 109, 47, 201>>}
QueryPageIds == {"1", "2", "3"}
WikidataIds == {"", "Q1", "Q2"}
QueryWikidataIds == {"", "Q1", "Q2", "Q3"}

Row(p, t, w) == [wikipedia_id |-> p, wikipedia_title |-> t, wikidata_id |-> w]

\* the sample pages: "M" and U+00C9 under page id "1", "m" under page id "2"
PageIdOf(t) == IF t = <<109>> THEN "2" ELSE "1"

RowPool ==
    {Row(PageIdOf(t), t, w) :
        t \in StoredTitles, w \in {None} \cup {Str(x) : x \in WikidataIds}}

\* the samples of the runs with several callers
ConcRowPool ==
    {Row("1", <<77>>, Str("Q1")), Row("1", <<77>>, None), Row("2", <<109>>, Str("Q2"))}
ConcRequests ==
    {[op |-> "title_to_id", page_title |-> <<109>>, uncased |-> TRUE],
     [op |-> "url_to_id", wiki_url |-> <<119, 47, 77>>],
     [op |-> "id_to_titles", wikidata_id |-> "Q1"],
     [op |-> "pid_to_id", wikipedia_id |-> "1"]}

StoresOver(pool) == UNION {[1..n -> pool] : n \in 0..MaxRows}

Requests ==
    [op : {"title_to_id"}, page_title : QueryTitles, uncased : BOOLEAN]
        \cup [op : {"url_to_id"}, wiki_url : Urls]
        \cup [op : {"id_to_titles"}, wikidata_id : QueryWikidataIds]
        \cup [op : {"pid_to_id"}, wikipedia_id : QueryPageIds]

NoReq == [op |-> "none"]
NoRet == [kind |-> "none", value |-> None]
Returned(v) == [kind |-> "return", value |-> v]
Raised(e) == [kind |-> "raise", value |-> [type |-> e, value |-> <<>>]]

----------------------------------------------------------------------------
(* SQLite: collations, comparison, SELECT, DISTINCT *)

\* sqlite3's NOCASE folds the 26 upper case characters of ASCII and nothing else
NoCaseFold(ch) == IF ch >= 65 /\ ch <= 90 THEN ch + 32 ELSE ch

NoCase(t) == [i \in 1..Len(t) |-> NoCaseFold(t[i])]

CollationNoCaseAlways(uncased) == "NOCASE"

\* {'COLLATE NOCASE' if uncased else ''}
Collation(uncased) == IF uncased THEN "NOCASE" ELSE "BINARY"

TextEq(a, b, collation) ==
    IF collation = "NOCASE" THEN NoCase(a) = NoCase(b) ELSE a = b

\* column = ? for a nullable column and a str parameter: NULL equals nothing
ColumnEq(col, param) == col.type = "str" /\ col.value[1] = param

RECURSIVE Distinct(_)
\* SELECT DISTINCT: each value once, at its first occurrence
Distinct(s) ==
    IF s = <<>> THEN <<>>
    ELSE LET front == Distinct(SubSeq(s, 1, Len(s) - 1))
             last == s[Len(s)]
         IN  IF \E i \in 1..Len(front) : front[i] = last
             THEN front
             ELSE Append(front, last)

NotDistinct(s) == s

\* the DISTINCT of the two SELECT DISTINCT statements
SelectDistinct(s) == Distinct(s)

\* the column `col` of the rows `hit` that satisfy the WHERE, as fetchall's tuples
Select(hit, col) == [i \in 1..Len(hit) |-> <<hit[i][col]>>]

StoreDropsMatches(store) == <<>>

\* a SELECT changes no row, and the commit at the end of the `with` block has
\* nothing to write
StoreAfterQuery(store) == store

----------------------------------------------------------------------------
(* WikiMapper *)

title_to_id_query(store, page_title, uncased) ==
    LET Where(r) == TextEq(r.wikipedia_title, page_title, Collation(uncased))
    IN  Select(SelectSeq(store, Where), "wikidata_id")

\* Python's truth value of item[0]: None and the empty string are false
Truthy(v) == v.type = "str" /\ v.value[1] # ""

title_to_id_first_row(res) == IF Len(res) = 0 THEN None ELSE res[1][1]

title_to_id_result(res) ==
    IF Len(res) = 0 THEN None
    ELSE IF \E i \in 1..Len(res) : Truthy(res[i][1])
         THEN LET first == CHOOSE i \in 1..Len(res) :
                               /\ Truthy(res[i][1])
                               /\ \A j \in 1..(i - 1) : ~Truthy(res[j][1])
              IN  res[first][1]
         ELSE None

RECURSIVE rfind(_, _)
\* the position of the last Slash of s at or before i, 0 when there is none
rfind(s, i) ==
    IF i = 0 THEN 0 ELSE IF s[i] = Slash THEN i ELSE rfind(s, i - 1)

RECURSIVE find(_, _)
find(s, i) ==
    IF i > Len(s) THEN 0 ELSE IF s[i] = Slash THEN i ELSE find(s, i + 1)

url_to_id_split_first(wiki_url) ==
    SubSeq(wiki_url, find(wiki_url, 1) + 1, Len(wiki_url))

\* wiki_url.rsplit("/", 1)[-1]
url_to_id_title(wiki_url) ==
    SubSeq(wiki_url, rfind(wiki_url, Len(wiki_url)) + 1, Len(wiki_url))

id_to_titles_query(store, wikidata_id) ==
    LET Where(r) == ColumnEq(r.wikidata_id, wikidata_id)
    IN  SelectDistinct(Select(SelectSeq(store, Where), "wikipedia_title"))

id_to_titles_result(res) == List([i \in 1..Len(res) |-> res[i][1]])

pid_to_id_query(store, wikipedia_id) ==
    LET Where(r) == r.wikipedia_id = wikipedia_id
    IN  SelectDistinct(Select(SelectSeq(store, Where), "wikidata_id"))

pid_to_id_last(res) == IF Len(res) = 0 THEN None ELSE res[Len(res)][1]

pid_to_id_result(res) == IF Len(res) = 0 THEN None ELSE res[1][1]

\* the statement a call executes, on the rows of the store
Query(r, store) ==
    CASE r.op = "title_to_id" -> title_to_id_query(store, r.page_title, r.uncased)
      [] r.op = "url_to_id" ->
            title_to_id_query(store, url_to_id_title(r.wiki_url), FALSE)
      [] r.op = "id_to_titles" -> id_to_titles_query(store, r.wikidata_id)
      [] r.op = "pid_to_id" -> pid_to_id_query(store, r.wikipedia_id)

\* the code after the `with` block
Result(r, res) ==
    CASE r.op \in {"title_to_id", "url_to_id"} -> title_to_id_result(res)
      [] r.op = "id_to_titles" -> id_to_titles_result(res)
      [] r.op = "pid_to_id" -> pid_to_id_result(res)

SwallowAsNone(e) == Returned(None)

\* no operation has a try/except or a loop around its `with` block: an exception
\* of sqlite3 leaves the operation as it is
Propagate(e) == Raised(e)

\* what c.execute raises on a store without a readable table `mapping`
ExecuteError(st) ==
    IF st = "corrupt" THEN "DatabaseError" ELSE "OperationalError"

InFrame(c) == pc[c] \in {"connected", "fetched"}

OpenCount == leaked + Cardinality({c \in Callers : InFrame(c)})

----------------------------------------------------------------------------
(* Steps of a call *)

\* sqlite3.connect(self._path_to_db): an unreadable path raises; a missing file
\* is created empty
Connect(c, r) ==
    /\ pc[c] \in {"idle", "done"}
    /\ OpenCount < MaxOpen
    /\ req' = [req EXCEPT ![c] = r]
    /\ results' = [results EXCEPT ![c] = <<>>]
    /\ IF status = "unreadable"
       THEN /\ pc' = [pc EXCEPT ![c] = "done"]
            /\ ret' = [ret EXCEPT ![c] = Propagate("OperationalError")]
            /\ status' = status
       ELSE /\ pc' = [pc EXCEPT ![c] = "connected"]
            /\ ret' = [ret EXCEPT ![c] = NoRet]
            /\ status' = IF status = "missing" THEN "empty" ELSE status
    /\ UNCHANGED <<path_to_db, rows, leaked>>

\* c.execute(...); c.fetchall(); the exit of the `with` block commits (or rolls
\* back and re-raises) and leaves the connection open.  An exception keeps the
\* frame, and so the connection, alive in its traceback.
Execute(c) ==
    /\ pc[c] = "connected"
    /\ IF status = "ok"
       THEN /\ results' = [results EXCEPT ![c] = Query(req[c], rows)]
            /\ rows' = StoreAfterQuery(rows)
            /\ pc' = [pc EXCEPT ![c] = "fetched"]
            /\ UNCHANGED <<ret, leaked>>
       ELSE /\ ret' = [ret EXCEPT ![c] = Propagate(ExecuteError(status))]
            /\ pc' = [pc EXCEPT ![c] = "done"]
            /\ leaked' = leaked + 1
            /\ UNCHANGED <<results, rows>>
    /\ UNCHANGED <<path_to_db, status, req>>

\* the code after the `with` block.  Nothing closes the connection: it goes
\* when the runtime frees the Connection object, at once under reference
\* counting, later under a tracing collector.
Return(c) ==
    /\ pc[c] = "fetched"
    /\ ret' = [ret EXCEPT ![c] = Returned(Result(req[c], results[c]))]
    /\ results' = [results EXCEPT ![c] = <<>>]
    /\ pc' = [pc EXCEPT ![c] = "done"]
    /\ \E freed \in BOOLEAN : leaked' = IF freed THEN leaked ELSE leaked + 1
    /\ UNCHANGED <<path_to_db, status, rows, req>>

\* the runtime frees an unreferenced Connection, which closes it
Collect ==
    /\ leaked > 0
    /\ leaked' = leaked - 1
    /\ UNCHANGED <<path_to_db, status, rows, pc, req, results, ret>>

----------------------------------------------------------------------------
(* Specifications *)

InitCallers ==
    /\ pc = [c \in Callers |-> "idle"]
    /\ req = [c \in Callers |-> NoReq]
    /\ results = [c \in Callers |-> <<>>]
    /\ ret = [c \in Callers |-> NoRet]
    /\ leaked = 0

\* WikiMapper(path_to_db) over any store: one caller
Init ==
    /\ path_to_db = "index_enwiki.db"
    /\ \/ status = "ok" /\ rows \in StoresOver(RowPool)
       \/ status \in {"missing", "corrupt", "unreadable"} /\ rows = <<>>
    /\ InitCallers

Next ==
    \/ \E r \in Requests : Connect(1, r)
    \/ Execute(1)
    \/ Return(1)
    \/ Collect

Spec == Init /\ [][Next]_vars

\* several callers of one mapper, their steps interleaved
InitConc ==
    /\ path_to_db = "index_enwiki.db"
    /\ \/ status = "ok" /\ rows \in StoresOver(ConcRowPool)
       \/ status \in {"missing", "corrupt", "unreadable"} /\ rows = <<>>
    /\ InitCallers

NextConc ==
    \/ \E c \in Callers, r \in ConcRequests : Connect(c, r)
    \/ \E c \in Callers : Execute(c)
    \/ \E c \in Callers : Return(c)
    \/ Collect

SpecConc == InitConc /\ [][NextConc]_vars


----------------------------------------------------------------------------
(* Properties *)

Done(c, op) == pc[c] = "done" /\ req[c].op = op

Least(S) == CHOOSE i \in S : \A j \in S : i <= j

TitleRows(T) == {i \in DOMAIN rows : rows[i].wikipedia_title = T}

\* the whole of a call, run on its own on the store as it is
RunAlone(r) ==
    IF status = "ok" THEN Returned(Result(r, Query(r, rows)))
    ELSE Raised(IF status = "corrupt" THEN "DatabaseError" ELSE "OperationalError")

CasedCall(T) == [op |-> "title_to_id", page_title |-> T, uncased |-> FALSE]

FirstNonNull(T) ==
    LET idx == {i \in TitleRows(T) : rows[i].wikidata_id # None}
    IN  IF idx = {} THEN None ELSE rows[Least(idx)].wikidata_id

\* C1: a case-sensitive title_to_id(T) returns the wikidata_id of the first row
\* with wikipedia_title = T whose wikidata_id is not NULL, and None when there
\* is no such row.
C1_FirstNonNull ==
    \A c \in Callers :
        (Done(c, "title_to_id") /\ ~req[c].uncased /\ status = "ok")
            => ret[c] = Returned(FirstNonNull(req[c].page_title))

IdRows(D) == {i \in DOMAIN rows : rows[i].wikidata_id = Str(D)}

\* C2: id_to_titles(D) returns a list holding exactly the titles of the rows
\* with wikidata_id = D, each once; the empty list when there is no such row.
C2_IdToTitles ==
    \A c \in Callers :
        (Done(c, "id_to_titles") /\ status = "ok")
            => LET titles == ret[c].value.value
                   D == req[c].wikidata_id
               IN  /\ ret[c].kind = "return"
                   /\ ret[c].value.type = "list"
                   /\ {titles[i] : i \in DOMAIN titles}
                          = {rows[i].wikipedia_title : i \in IdRows(D)}
                   /\ \A i, j \in DOMAIN titles : titles[i] = titles[j] => i = j
                   /\ IdRows(D) = {} => titles = <<>>

C2_Witness ==
    \E c \in Callers :
        /\ Done(c, "id_to_titles") /\ status = "ok"
        /\ \E i, j \in IdRows(req[c].wikidata_id) :
               i # j /\ rows[i].wikipedia_title = rows[j].wikipedia_title
        /\ Len(ret[c].value.value) = 1

\* the part of U after its last '/', the whole of U when it has none
AfterLastSlash(U) ==
    LET n == Len(U)
        k == CHOOSE k \in 0..n :
                 /\ \A i \in (n - k + 1)..n : U[i] # Slash
                 /\ k = n \/ U[n - k] = Slash
    IN  SubSeq(U, n - k + 1, n)

\* C3: url_to_id(U) ends as a case-sensitive title_to_id of the part of U after
\* its last '/' does.
C3_UrlToId ==
    \A c \in Callers :
        Done(c, "url_to_id")
            => ret[c] = RunAlone(CasedCall(AfterLastSlash(req[c].wiki_url)))

C3_Witness ==
    \E c \in Callers :
        /\ Done(c, "url_to_id") /\ status = "ok"
        /\ req[c].wiki_url = <<119, 47, 109, 47, 201>>
        /\ ret[c] = Returned(Str("Q1"))

PageRows(P) == {i \in DOMAIN rows : rows[i].wikipedia_id = P}

\* C4: pid_to_id(P) returns None when no row has wikipedia_id = P, and else the
\* wikidata_id of the first such row (the first of their distinct values).
C4_PidToId ==
    \A c \in Callers :
        (Done(c, "pid_to_id") /\ status = "ok")
            => LET idx == PageRows(req[c].wikipedia_id)
               IN  ret[c] = Returned(IF idx = {} THEN None
                                     ELSE rows[Least(idx)].wikidata_id)

C4_Witness ==
    \E c \in Callers :
        /\ Done(c, "pid_to_id") /\ status = "ok"
        /\ LET idx == PageRows(req[c].wikipedia_id)
           IN  /\ Cardinality(idx) = 2
               /\ \A i \in idx : rows[i].wikidata_id.type = "str"
               /\ \E i, j \in idx : rows[i].wikidata_id # rows[j].wikidata_id
        /\ ret[c] = Returned(rows[1].wikidata_id)

\* the lower case of a letter of ASCII or of Latin-1, as Unicode defines it
UnicodeLower(ch) ==
    IF (ch >= 65 /\ ch <= 90) \/ (ch >= 192 /\ ch <= 222 /\ ch # 215)
    THEN ch + 32
    ELSE ch

\* a and b differ at most in letter case
SameLetters(a, b) ==
    /\ Len(a) = Len(b)
    /\ \A i \in 1..Len(a) : UnicodeLower(a[i]) = UnicodeLower(b[i])

\* T is stored, and no row holds another casing of T
OnlyCasing(T) ==
    /\ TitleRows(T) # {}
    /\ \A i \in DOMAIN rows :
           SameLetters(rows[i].wikipedia_title, T) => rows[i].wikipedia_title = T

\* C5: when T is the only stored casing of a title and T2 differs from T only
\* in letter case, title_to_id(T2, uncased) ends as the case-sensitive
\* title_to_id(T) does, and the case-sensitive title_to_id(T2) matches only the
\* rows titled exactly T2 (None when T2 is not T).
C5_CaseInsensitive ==
    \A c \in Callers :
        (Done(c, "title_to_id") /\ status = "ok")
            => LET T2 == req[c].page_title
               IN  \A i \in DOMAIN rows :
                       LET T == rows[i].wikipedia_title
                       IN  (OnlyCasing(T) /\ SameLetters(T, T2))
                               => IF req[c].uncased
                                  THEN ret[c] = RunAlone(CasedCall(T))
                                  ELSE /\ T2 # T => ret[c] = Returned(None)
                                       /\ T2 = T => ret[c] = RunAlone(CasedCall(T))

Permutations(n) == {p \in [1..n -> 1..n] : \A i, j \in 1..n : p[i] = p[j] => i = j}

NonNullIds(T) == {rows[i].wikidata_id : i \in TitleRows(T)} \ {None}

\* C6: when the rows titled T carry exactly one distinct non-NULL wikidata_id,
\* title_to_id(T) returns the same under every order of the rows; a NULL row and
\* a "Q1" row give "Q1".
C6_OrderIndependent ==
    \A c \in Callers :
        (Done(c, "title_to_id") /\ ~req[c].uncased /\ status = "ok")
            => LET T == req[c].page_title
                   n == Len(rows)
               IN  /\ Cardinality(NonNullIds(T)) = 1
                          => \A p \in Permutations(n) :
                                 LET store == [i \in 1..n |-> rows[p[i]]]
                                 IN  ret[c] = Returned(title_to_id_result(
                                         title_to_id_query(store, T, FALSE)))
                   /\ ({rows[i].wikidata_id : i \in TitleRows(T)} = {None, Str("Q1")}
                           /\ Cardinality(TitleRows(T)) = 2)
                          => ret[c] = Returned(Str("Q1"))

C6_Witness ==
    \E c \in Callers :
        /\ Done(c, "title_to_id") /\ ~req[c].uncased /\ status = "ok"
        /\ Len(rows) = 2
        /\ TitleRows(req[c].page_title) = {1, 2}
        /\ rows[1].wikidata_id = None
        /\ rows[2].wikidata_id = Str("Q1")
        /\ ret[c] = Returned(Str("Q1"))

\* C7: on a store that is missing, corrupt or unreadable every call ends in the
\* exception of its first failing step: no call gets past the failing step, and
\* none returns a value.
C7_StoreUnavailable ==
    \A c \in Callers :
        status # "ok"
            => /\ pc[c] # "fetched"
               /\ pc[c] = "done" => ret[c].kind = "raise"

C7_Witness ==
    \E c \in Callers :
        /\ Done(c, "pid_to_id")
        /\ status = "corrupt"
        /\ ret[c] = Raised("DatabaseError")

\* C8: no step of any call changes the rows of the store or the mapper's path,
\* and every finished call has the result of that call run alone on the store.
C8_ReadOnlyIndependent ==
    /\ [][rows' = rows /\ path_to_db' = path_to_db]_vars
    /\ [](\A c \in Callers : pc[c] = "done" => ret[c] = RunAlone(req[c]))

C8_Witness ==
    /\ status = "ok"
    /\ Len(rows) = 2
    /\ Done(1, "title_to_id") /\ ret[1] = Returned(Str("Q2"))
    /\ pc[2] = "fetched" /\ req[2].op = "id_to_titles"

\* C9: between calls (no call running) the mapper has no open connection.
C9_NoOpenConnection ==
    (\A c \in Callers : pc[c] \in {"idle", "done"}) => OpenCount = 0

\* C10: when a case-sensitive title_to_id(T) returns a wikidata id W,
\* id_to_titles(W) contains T.
C10_RoundTrip ==
    \A c \in Callers :
        (Done(c, "title_to_id") /\ ~req[c].uncased /\ ret[c].kind = "return"
            /\ ret[c].value.type = "str")
            => LET W == ret[c].value.value[1]
                   titles == id_to_titles_result(id_to_titles_query(rows, W)).value
               IN  \E i \in DOMAIN titles : titles[i] = req[c].page_title

C10_Witness ==
    \E c \in Callers :
        /\ Done(c, "title_to_id") /\ ~req[c].uncased
        /\ ret[c] = Returned(Str("Q2"))
        /\ Len(rows) = 2
        /\ rows[1].wikidata_id = Str("Q2")
        /\ rows[2].wikidata_id = Str("Q2")
        /\ rows[1].wikipedia_title # rows[2].wikipedia_title

============================================================================
